---- MODULE Spec2Model ----
(***************************************************************************)
(* StudyMate retrieval engine: RAGEngine (rag_engine.py) and the /process, *)
(* /answer and /reset routes of app.py that drive it.                      *)
(*                                                                         *)
(* app.py is written against a RAGEngine that has a build_context method   *)
(* (and a debug argument); rag_engine.py has neither.  build_context is    *)
(* modelled from the design document, on top of rag_engine.py's retrieve.  *)
(*                                                                         *)
(* Text is a sequence of one-character strings, so that str.split,         *)
(* ' '.join, str.strip and len are computed character by character.        *)
(* Python's None is the empty option <<>>; a present value x is <<x>>.     *)
(***************************************************************************)
EXTENDS Integers, Sequences, FiniteSets, TLC

VARIABLES chunk_size, chunk_overlap, chunks, embeddings, index,
          session, history_rows, ever_built, last

\* chunk_size .. index: the fields of the RAGEngine instance
\* session:      the Flask session ('processed', 'num_chunks')
\* history_rows: the number of rows of the QuestionHistory table
\* ever_built:   whether some process_pdfs call has succeeded
\* last:         the last call and what it returned or raised
vars == <<chunk_size, chunk_overlap, chunks, embeddings, index,
          session, history_rows, ever_built, last>>

(***************************************************************************)
(* Bounds of the model.                                                    *)
(***************************************************************************)
MaxChunkSize == 2
MaxOverlap == 2
MaxDocs == 2
MaxBuildWords == 2
MaxContextWords == 3
MaxTextWords == 4
MaxTopK == 3
MaxChars == 5
MaxHistory == 1

(***************************************************************************)
(* Program constants.                                                      *)
(***************************************************************************)
\* build_context(question, top_k=5, max_chars=3000) in the /answer route
AnswerTopK == 5
AnswerMaxChars == 3000
\* the score FAISS gives a slot it could not fill, below every inner
\* product of the model's unit vectors (which are 0 or 1)
NegInf == -1

None == <<>>
Some(x) == <<x>>

Min(a, b) == IF a < b THEN a ELSE b

(***************************************************************************)
(* Strings.                                                                *)
(***************************************************************************)
Whitespace == {" ", "\n"}

RECURSIVE SplitAcc(_, _, _, _)
SplitAcc(text, i, cur, acc) ==
    IF i > Len(text)
    THEN IF cur = <<>> THEN acc ELSE Append(acc, cur)
    ELSE IF text[i] \in Whitespace
         THEN SplitAcc(text, i + 1, <<>>,
                       IF cur = <<>> THEN acc ELSE Append(acc, cur))
         ELSE SplitAcc(text, i + 1, Append(cur, text[i]), acc)

\* text.split(): the maximal whitespace-free runs, in order
Split(text) == SplitAcc(text, 1, <<>>, <<>>)

RECURSIVE Join(_, _)
\* sep.join(parts)
Join(sep, parts) ==
    IF parts = <<>> THEN <<>>
    ELSE IF Len(parts) = 1 THEN parts[1]
    ELSE parts[1] \o sep \o Join(sep, Tail(parts))

RECURSIVE LStrip(_)
LStrip(text) ==
    IF text # <<>> /\ text[1] \in Whitespace THEN LStrip(Tail(text)) ELSE text

RECURSIVE RStrip(_)
RStrip(text) ==
    IF text # <<>> /\ text[Len(text)] \in Whitespace
    THEN RStrip(SubSeq(text, 1, Len(text) - 1))
    ELSE text

\* text.strip()
Strip(text) == RStrip(LStrip(text))

\* s[i:j] for 0 <= i <= j (0-based, end exclusive, clamped to len(s))
Slice(s, i, j) == SubSeq(s, i + 1, Min(j, Len(s)))

\* range(0, stop, step) for step > 0 and for step < 0 (then empty, as
\* stop >= 0); step = 0 raises ValueError and is handled by the caller
PyRange(stop, step) ==
    IF step < 0 \/ stop <= 0 THEN <<>>
    ELSE [k \in 1..((stop + step - 1) \div step) |-> (k - 1) * step]

(***************************************************************************)
(* RAGEngine.chunk_text                                                    *)
(***************************************************************************)
\* (variant: the stride ignores the overlap)
ChunkStep_NoOverlap(W, O) == W

\* the stride of the window starts, chunk_size - chunk_overlap
ChunkStep(W, O) == W - O

ChunkWindow(words, i, W) == Slice(words, i, i + W)

RECURSIVE KeepNonBlank(_)
KeepNonBlank(cs) ==
    IF cs = <<>> THEN <<>>
    ELSE IF Strip(cs[1]) # <<>>
         THEN <<cs[1]>> \o KeepNonBlank(Tail(cs))
         ELSE KeepNonBlank(Tail(cs))

chunk_text(text, W, O) ==
    LET words == Split(text)
        step == ChunkStep(W, O)
    IN  IF step = 0
        THEN [raised |-> "ValueError", chunks |-> <<>>]
        ELSE LET starts == PyRange(Len(words), step)
                 wins == [k \in 1..Len(starts) |->
                             Join(<<" ">>, ChunkWindow(words, starts[k], W))]
             IN  [raised |-> "none", chunks |-> KeepNonBlank(wins)]

(***************************************************************************)
(* Uploaded documents.  A document is the text PyMuPDF manages to read     *)
(* from it and whether reading it raises (a corrupted or unreadable file   *)
(* raises in fitz.open or in page.get_text, after `text` has been read).   *)
(***************************************************************************)
Vocab == {<<"a">>, <<"b">>}

WordSeqs(vocab, n) == UNION {[1..m -> vocab] : m \in 0..n}

\* the texts of at most n words of vocab, single-spaced
Texts(vocab, n) == {Join(<<" ">>, ws) : ws \in WordSeqs(vocab, n)}

Docs(texts) == [text : texts, corrupt : BOOLEAN]

PathLists(docs, d) == UNION {[1..m -> docs] : m \in 1..d}

\* RAGEngine.extract_text_from_pdf: the except clause prints and falls
\* through to `return text`, so no exception leaves the method
extract_text_from_pdf(doc) == [raised |-> "none", text |-> doc.text]

RECURSIVE AllText(_)
\* the loop `all_text += "\n\n" + text` of process_pdfs
AllText(pdf_paths) ==
    IF pdf_paths = <<>> THEN <<>>
    ELSE LET n == Len(pdf_paths)
         IN  AllText(SubSeq(pdf_paths, 1, n - 1))
                \o <<"\n", "\n">> \o extract_text_from_pdf(pdf_paths[n]).text

(***************************************************************************)
(* The embedding model and the FAISS index (external libraries).  A raw    *)
(* embedding is an axis-aligned integer vector, which normalize_L2 scales  *)
(* to unit length exactly; the zero vector is left as it is.               *)
(***************************************************************************)
RECURSIVE Count(_, _)
Count(text, c) ==
    IF text = <<>> THEN 0
    ELSE (IF text[1] = c THEN 1 ELSE 0) + Count(Tail(text), c)

Encode(text) ==
    LET a == Count(text, "a")
        b == Count(text, "b")
    IN  IF a >= b THEN <<a, 0>> ELSE <<0, b>>

Norm(v) == v[1] + v[2]

normalize_L2(v) ==
    IF Norm(v) = 0 THEN v ELSE <<v[1] \div Norm(v), v[2] \div Norm(v)>>

InnerProduct(u, v) == u[1] * v[1] + u[2] * v[2]

\* embedding_model.encode(texts) followed by faiss.normalize_L2
EncodeAll(texts) == [k \in 1..Len(texts) |-> normalize_L2(Encode(texts[k]))]

\* the stored vector (0-based label) that ranks first among `labels`:
\* highest inner product, the lower label on a tie
Best(vectors, q, labels) ==
    CHOOSE i \in labels :
        \A j \in labels :
            \/ InnerProduct(vectors[i + 1], q) > InnerProduct(vectors[j + 1], q)
            \/ /\ InnerProduct(vectors[i + 1], q) = InnerProduct(vectors[j + 1], q)
               /\ i <= j

RECURSIVE Ranked(_, _, _)
Ranked(vectors, q, labels) ==
    IF labels = {} THEN <<>>
    ELSE LET b == Best(vectors, q, labels)
         IN  <<[score |-> InnerProduct(vectors[b + 1], q), idx |-> b]>>
                \o Ranked(vectors, q, labels \ {b})

\* IndexFlatIP.search(q, k): always k slots; the ntotal best first, the
\* slots beyond ntotal filled with label -1 and the lowest score
IndexSearch(vectors, q, k) ==
    LET found == Ranked(vectors, q, 0..(Len(vectors) - 1))
    IN  [s \in 1..k |-> IF s <= Len(found) THEN found[s]
                        ELSE [score |-> NegInf, idx |-> -1]]

(***************************************************************************)
(* RAGEngine.process_pdfs: the triple it leaves and the exception raised.  *)
(* `fail` is the library call that raises in this run, if any.             *)
(***************************************************************************)
Failures == {"none", "encode", "index", "add"}

process_pdfs(W, O, cur, pdf_paths, fail) ==
    LET ct == chunk_text(AllText(pdf_paths), W, O)
        vecs == EncodeAll(ct.chunks)
    IN  IF ct.raised # "none"
        THEN [raised |-> ct.raised, chunks |-> cur.chunks,
              embeddings |-> cur.embeddings, index |-> cur.index]
        ELSE IF ct.chunks = <<>>
        THEN [raised |-> "ValueError", chunks |-> ct.chunks,
              embeddings |-> cur.embeddings, index |-> cur.index]
        ELSE IF fail = "encode"
        THEN [raised |-> "EncodeError", chunks |-> ct.chunks,
              embeddings |-> cur.embeddings, index |-> cur.index]
        ELSE IF fail = "index"
        THEN [raised |-> "IndexError", chunks |-> ct.chunks,
              embeddings |-> Some(vecs), index |-> cur.index]
        ELSE IF fail = "add"
        THEN [raised |-> "IndexError", chunks |-> ct.chunks,
              embeddings |-> Some(vecs), index |-> Some(<<>>)]
        ELSE [raised |-> "none", chunks |-> ct.chunks,
              embeddings |-> Some(vecs), index |-> Some(vecs)]

(***************************************************************************)
(* RAGEngine.retrieve                                                      *)
(***************************************************************************)
\* chunks[idx] with Python's negative indexing
PyIndex(seq, idx) == IF idx >= 0 THEN seq[idx + 1] ELSE seq[Len(seq) + idx + 1]

HitKept(hit, cs) == hit.idx < Len(cs)

RECURSIVE Results(_, _)
Results(hits, cs) ==
    IF hits = <<>> THEN <<>>
    ELSE IF HitKept(hits[1], cs)
         THEN <<[text |-> PyIndex(cs, hits[1].idx), score |-> hits[1].score]>>
                 \o Results(Tail(hits), cs)
         ELSE Results(Tail(hits), cs)

SearchHits(cur, query, top_k) ==
    IF cur.index = None \/ cur.chunks = <<>> THEN <<>>
    ELSE IndexSearch(cur.index[1], normalize_L2(Encode(query)), top_k)

retrieve(cur, query, top_k) == Results(SearchHits(cur, query, top_k), cur.chunks)

Engine == [chunks |-> chunks, embeddings |-> embeddings, index |-> index]

EmptyEngine == [chunks |-> <<>>, embeddings |-> None, index |-> None]

(***************************************************************************)
(* RAGEngine.build_context, called by the /answer route: the ranked chunks *)
(* of retrieve and the context assembled from them within max_chars.       *)
(***************************************************************************)
Delimiter == <<"\n", "\n">>

RECURSIVE Extend(_, _, _)
Extend(context, rest, max_chars) ==
    IF rest = <<>> THEN context
    ELSE LET longer == context \o Delimiter \o rest[1].text
         IN  IF Len(longer) <= max_chars
             THEN Extend(longer, Tail(rest), max_chars)
             ELSE context

\* (variant: the concatenation of all ranked chunks cut at max_chars)
AssembleContext_HardCut(ranked, max_chars) ==
    Slice(Join(Delimiter, [k \in 1..Len(ranked) |-> ranked[k].text]),
          0, max_chars)

AssembleContext(ranked, max_chars) ==
    IF ranked = <<>> THEN <<>>
    ELSE Extend(ranked[1].text, Tail(ranked), max_chars)

build_context(cur, question, top_k, max_chars) ==
    LET ranked == retrieve(cur, question, top_k)
    IN  [context |-> AssembleContext(ranked, max_chars), ranked |-> ranked]

(***************************************************************************)
(* The /answer route and the generator.                                    *)
(***************************************************************************)
NotFoundAnswer == "Information not found in the document."

\* what the language model may do with a prompt: a completion, or raise
Completions == {"a generated answer", NotFoundAnswer, "raise"}

\* GraniteClient.generate_answer re-raises what the model raises
generate_answer(question, context, completion) ==
    IF completion = "raise"
    THEN [raised |-> "GenerationError", answer |-> ""]
    ELSE [raised |-> "none", answer |-> completion]

\* (variant: the generator is called whatever the context)
HasContext_Always(context) == TRUE

\* `if not context.strip()` is false
HasContext(context) == Strip(context) # <<>>

answer(cur, processed, form_question, completion) ==
    LET question == Strip(form_question)
        built == build_context(cur, question, AnswerTopK, AnswerMaxChars)
        gen == generate_answer(question, built.context, completion)
    IN  IF ~processed \/ question = <<>>
        THEN [status |-> "redirect", context |-> <<>>, generated |-> FALSE,
              answer_text |-> ""]
        ELSE IF ~HasContext(built.context)
        THEN [status |-> "ok", context |-> built.context, generated |-> FALSE,
              answer_text |-> NotFoundAnswer]
        ELSE IF gen.raised # "none"
        THEN [status |-> "error", context |-> built.context, generated |-> TRUE,
              answer_text |-> ""]
        ELSE [status |-> "ok", context |-> built.context, generated |-> TRUE,
              answer_text |-> gen.answer]

(***************************************************************************)
(* Inputs.                                                                 *)
(***************************************************************************)
ChunkSizes == 1..MaxChunkSize
ChunkOverlaps == 0..MaxOverlap
Queries == {<<"a">>, <<"b">>, <<>>}
FormQuestions == {<<"a">>, <<" ", "b">>, <<" ">>}
TopKs == 1..MaxTopK
CharBudgets == 1..MaxChars
\* the uploads of the lifecycle: empty or one-word documents (reading a
\* corrupted document changes nothing in the engine, see
\* extract_text_from_pdf, so the lifecycle uploads readable ones)
UploadedPaths == PathLists({d \in Docs(Texts({<<"a">>}, 1)) : ~d.corrupt}, MaxDocs)
BuildPaths == PathLists(Docs(Texts(Vocab, MaxBuildWords)), MaxDocs)
\* the uploads behind the engines that are queried: one readable document
ContextPaths ==
    PathLists({d \in Docs(Texts(Vocab, MaxContextWords)) : ~d.corrupt}, 1)
ChunkerTexts == Texts(Vocab, MaxTextWords)

(***************************************************************************)
(* The engine and the routes.                                              *)
(***************************************************************************)
\* session.clear(): session.get('processed') is then falsy and
\* session.get('num_chunks', 0) is 0
ClearedSession == [processed |-> FALSE, num_chunks |-> 0]

\* RAGEngine.__init__ with the given chunk_size and chunk_overlap
Init ==
    /\ chunk_size \in ChunkSizes
    /\ chunk_overlap \in ChunkOverlaps
    /\ chunks = <<>>
    /\ embeddings = None
    /\ index = None
    /\ session = ClearedSession
    /\ history_rows = 0
    /\ ever_built = FALSE
    /\ last = [op |-> "init"]

\* the /process route: process_pdfs under try/except; `logged` is what the
\* log keeps of the upload
ProcessRoute(pdf_paths, fail, logged) ==
    \E r \in {process_pdfs(chunk_size, chunk_overlap, Engine, pdf_paths, fail)} :
        /\ chunks' = r.chunks
        /\ embeddings' = r.embeddings
        /\ index' = r.index
        /\ session' = IF r.raised = "none"
                       THEN [processed |-> TRUE, num_chunks |-> Len(r.chunks)]
                       ELSE session
        /\ ever_built' = (ever_built \/ r.raised = "none")
        /\ last' = [op |-> "process_pdfs", raised |-> r.raised,
                    pdf_paths |-> logged]
        /\ UNCHANGED <<chunk_size, chunk_overlap, history_rows>>

Process == \E pdf_paths \in UploadedPaths, fail \in Failures :
               ProcessRoute(pdf_paths, fail, <<>>)

Retrieve ==
    \E query \in Queries, top_k \in TopKs :
        /\ last' = [op |-> "retrieve", query |-> query, top_k |-> top_k,
                    out |-> retrieve(Engine, query, top_k)]
        /\ UNCHANGED <<chunk_size, chunk_overlap, chunks, embeddings, index,
                       session, history_rows, ever_built>>

\* (variant: reset forgets the embeddings and the index)
reset_ChunksOnly(cur) == [cur EXCEPT !.chunks = <<>>]

\* RAGEngine.reset: the triple it leaves
reset(cur) == EmptyEngine

\* the /reset route: rag_engine.reset() and session.clear()
Reset ==
    /\ chunks' = reset(Engine).chunks
    /\ embeddings' = reset(Engine).embeddings
    /\ index' = reset(Engine).index
    /\ session' = ClearedSession
    /\ last' = [op |-> "reset", before |-> Len(chunks)]
    /\ UNCHANGED <<chunk_size, chunk_overlap, history_rows, ever_built>>

\* the /answer route; an answer is saved as a new QuestionHistory row
Answer ==
    \E form_question \in FormQuestions, completion \in Completions :
        \E res \in {answer(Engine, session.processed, form_question,
                           completion)} :
            /\ res.status = "ok" => history_rows < MaxHistory
            /\ history_rows' = IF res.status = "ok" THEN history_rows + 1
                                ELSE history_rows
            /\ last' = [op |-> "answer", res |-> res]
            /\ UNCHANGED <<chunk_size, chunk_overlap, chunks, embeddings,
                           index, session, ever_built>>

Next == Process \/ Retrieve \/ Reset \/ Answer

Spec == Init /\ [][Next]_vars

(***************************************************************************)
(* process_pdfs on a freshly constructed engine, the upload logged.        *)
(***************************************************************************)
BuildOnce ==
    /\ last.op = "init"
    /\ \E pdf_paths \in BuildPaths, fail \in Failures :
           ProcessRoute(pdf_paths, fail, pdf_paths)

SpecBuild == Init /\ [][BuildOnce]_vars

(***************************************************************************)
(* chunk_text as a function of the configuration and the text.             *)
(***************************************************************************)
InitChunk ==
    /\ chunk_size \in ChunkSizes
    /\ chunk_overlap \in ChunkOverlaps
    /\ chunks = <<>>
    /\ embeddings = None
    /\ index = None
    /\ session = ClearedSession
    /\ history_rows = 0
    /\ ever_built = FALSE
    /\ \E text \in ChunkerTexts : last = [op |-> "text", text |-> text]

ChunkTextCall ==
    /\ last.op = "text"
    /\ last' = [op |-> "chunk_text", text |-> last.text,
                res |-> chunk_text(last.text, chunk_size, chunk_overlap)]
    /\ UNCHANGED <<chunk_size, chunk_overlap, chunks, embeddings, index,
                   session, history_rows, ever_built>>

SpecChunk == InitChunk /\ [][ChunkTextCall]_vars

(***************************************************************************)
(* retrieve and build_context on an engine that processed an upload        *)
(* successfully.                                                           *)
(***************************************************************************)
InitContext ==
    /\ chunk_size \in ChunkSizes
    /\ chunk_overlap \in ChunkOverlaps
    /\ \E pdf_paths \in ContextPaths :
          \E r \in {process_pdfs(chunk_size, chunk_overlap, EmptyEngine,
                                 pdf_paths, "none")} :
              /\ r.raised = "none"
              /\ chunks = r.chunks
              /\ embeddings = r.embeddings
              /\ index = r.index
              /\ session = [processed |-> TRUE, num_chunks |-> Len(r.chunks)]
    /\ history_rows = 0
    /\ ever_built = TRUE
    /\ last = [op |-> "process_pdfs", raised |-> "none", pdf_paths |-> <<>>]

BuildContextCall ==
    \E question \in Queries, top_k \in TopKs, max_chars \in CharBudgets :
        /\ last' = [op |-> "build_context", question |-> question,
                    top_k |-> top_k, max_chars |-> max_chars,
                    res |-> build_context(Engine, question, top_k, max_chars)]
        /\ UNCHANGED <<chunk_size, chunk_overlap, chunks, embeddings, index,
                       session, history_rows, ever_built>>

SpecContext == InitContext /\ [][BuildContextCall]_vars

SpecRetrieve == InitContext /\ [][Retrieve]_vars

(***************************************************************************)
(* Properties.                                                             *)
(***************************************************************************)
CeilDiv(a, b) == (a + b - 1) \div b

Words(T) == Split(T)

\* C1: a process_pdfs call that raises leaves the (chunks, embeddings,
\* index) triple exactly as it was before the call, or entirely empty when
\* no earlier call had succeeded.
C1_FailedProcessKeepsPriorState ==
    [][(last'.op = "process_pdfs" /\ last'.raised # "none")
          => \/ Engine' = Engine
             \/ (~ever_built /\ Engine' = EmptyEngine)]_vars

\* the labels 0..n-1 the index search matched, in rank order
MatchedHits(cur, query, top_k) ==
    SelectSeq(SearchHits(cur, query, top_k),
              LAMBDA h : h.idx \in 0..(Len(cur.chunks) - 1))

\* C2: on an engine holding n >= 1 chunks retrieve returns at most
\* min(top_k, n) results, in non-increasing score order, each the chunk at a
\* label in [0, n) that the search matched, none of them padded or repeated.
C2_RetrieveClampedToStored ==
    (last.op = "retrieve" /\ chunks # <<>>)
       => LET n == Len(chunks)
              out == last.out
              hits == MatchedHits(Engine, last.query, last.top_k)
          IN  /\ Len(out) <= Min(last.top_k, n)
              /\ \A i \in 1..(Len(out) - 1) : out[i].score >= out[i + 1].score
              /\ \A i, j \in 1..Len(hits) : i # j => hits[i].idx # hits[j].idx
              /\ out = [k \in 1..Len(hits) |->
                           [text |-> chunks[hits[k].idx + 1],
                            score |-> hits[k].score]]

RankedTexts(ranked) == [k \in 1..Len(ranked) |-> ranked[k].text]

\* C3: the context of build_context is the blank-line-separated
\* concatenation of a prefix of the ranked chunks, each whole; it is no
\* longer than max_chars, unless the top-ranked chunk alone is longer than
\* max_chars, and then the context is exactly that chunk.
C3_ContextIsBoundedPrefix ==
    last.op = "build_context"
       => LET context == last.res.context
              ranked == last.res.ranked
              texts == RankedTexts(ranked)
          IN  /\ ranked = retrieve(Engine, last.question, last.top_k)
              /\ \E m \in 0..Len(texts) :
                     context = Join(Delimiter, SubSeq(texts, 1, m))
              /\ \/ Len(context) <= last.max_chars
                 \/ /\ ranked # <<>>
                    /\ Len(texts[1]) > last.max_chars
                    /\ context = texts[1]

\* C3 witness: three stored chunks, all three ranked, of which the budget
\* admits the first two
C3_Witness ==
    /\ last.op = "build_context"
    /\ Len(chunks) >= 3
    /\ Len(last.res.ranked) = 3
    /\ last.res.context = Join(Delimiter,
                               SubSeq(RankedTexts(last.res.ranked), 1, 2))
    /\ Len(Join(Delimiter, RankedTexts(last.res.ranked))) > last.max_chars

ValidChunking == 0 <= chunk_overlap /\ chunk_overlap < chunk_size

\* chunk i (from 0) is the words from i*(W-O), at most W of them
WindowsAsSpecified(T, cs, W, O) ==
    \A k \in 1..Len(cs) :
        /\ cs[k] = Join(<<" ">>, SubSeq(Words(T), (k - 1) * (W - O) + 1,
                                        Min((k - 1) * (W - O) + W, Len(Words(T)))))
        /\ Len(Words(cs[k])) <= W

\* C4 as stated: for N > W words and 0 <= O < W the chunker produces
\* ceil((N - W) / (W - O)) + 1 chunks, chunk i being the words from
\* i*(W-O), at most W of them.
C4_ChunkCountAsStated ==
    (last.op = "chunk_text" /\ ValidChunking
        /\ Len(Words(last.text)) > chunk_size)
       => /\ last.res.raised = "none"
          /\ Len(last.res.chunks)
                = CeilDiv(Len(Words(last.text)) - chunk_size,
                          chunk_size - chunk_overlap) + 1
          /\ WindowsAsSpecified(last.text, last.res.chunks,
                                chunk_size, chunk_overlap)

\* C4 amended: for N > W words and 0 <= O < W the chunker produces
\* ceil(N / (W - O)) chunks (one per window start below N), chunk i being
\* the words from i*(W-O), at most W of them.
C4_ChunkCount ==
    (last.op = "chunk_text" /\ ValidChunking
        /\ Len(Words(last.text)) > chunk_size)
       => /\ last.res.raised = "none"
          /\ Len(last.res.chunks)
                = CeilDiv(Len(Words(last.text)), chunk_size - chunk_overlap)
          /\ WindowsAsSpecified(last.text, last.res.chunks,
                                chunk_size, chunk_overlap)

\* C4 witness: overlapping windows over a text longer than the window, where
\* the trailing starts add chunks beyond ceil((N - W) / (W - O)) + 1
C4_Witness ==
    /\ last.op = "chunk_text"
    /\ ValidChunking
    /\ chunk_overlap > 0
    /\ Len(Words(last.text)) > chunk_size
    /\ Len(last.res.chunks)
          > CeilDiv(Len(Words(last.text)) - chunk_size,
                    chunk_size - chunk_overlap) + 1

\* the chunks of one document chunked on its own
ChunksOf(doc) ==
    chunk_text(extract_text_from_pdf(doc).text, chunk_size, chunk_overlap).chunks

\* C5: after process_pdfs on two or more documents every stored chunk is a
\* window of exactly one of the documents.
C5_ChunksWithinOneDocument ==
    (last.op = "process_pdfs" /\ last.raised = "none"
        /\ Len(last.pdf_paths) >= 2)
       => \A k \in 1..Len(chunks) :
              \E d \in 1..Len(last.pdf_paths) :
                  \E c \in 1..Len(ChunksOf(last.pdf_paths[d])) :
                      chunks[k] = ChunksOf(last.pdf_paths[d])[c]

\* C6: the index and the embeddings hold one vector per chunk, and are None
\* exactly when there are no chunks.
C6_TripleConsistent ==
    /\ (index = None) <=> (chunks = <<>>)
    /\ (embeddings = None) <=> (chunks = <<>>)
    /\ index # None => Len(index[1]) = Len(chunks)
    /\ embeddings # None => Len(embeddings[1]) = Len(chunks)

\* C7: with overlap >= window size chunking fails with a configuration
\* error for every text.
C7_InvalidConfigFailsFast ==
    (last.op = "chunk_text" /\ chunk_overlap >= chunk_size)
       => last.res.raised # "none"

\* C8: when a document of the upload is corrupted or unreadable, process_pdfs
\* does not complete successfully: the failure reaches its caller.
C8_CorruptDocumentReported ==
    (last.op = "process_pdfs"
        /\ \E d \in 1..Len(last.pdf_paths) : last.pdf_paths[d].corrupt)
       => last.raised # "none"

\* C9: after construction and after every reset the engine is empty
\* (chunks = [], embeddings = None, index = None), reset of an empty engine
\* is the empty engine again, and retrieve on the empty engine is [].
C9_ResetEmptiesEngine ==
    /\ last.op \in {"init", "reset"}
          => (Engine = EmptyEngine /\ Len(chunks) = 0)
    /\ reset(reset(Engine)) = reset(Engine)
    /\ (last.op = "retrieve" /\ Engine = EmptyEngine) => last.out = <<>>

\* C9 witness: a reset that cleared a non-empty engine
C9_Witness ==
    /\ last.op = "reset"
    /\ last.before > 0
    /\ Engine = EmptyEngine

\* C10: in the /answer route the generator is invoked only when the
\* assembled context is non-empty after trimming; with an empty context it
\* is not invoked and the answer is the fixed not-found string.
C10_GeneratorNeedsContext ==
    (last.op = "answer" /\ last.res.status # "redirect")
       => /\ last.res.generated => Strip(last.res.context) # <<>>
          /\ Strip(last.res.context) = <<>>
                => (~last.res.generated /\ last.res.answer_text = NotFoundAnswer)

\* C10 witness: a question against a processed session whose engine has no
\* chunks, answered with the fixed string
C10_Witness ==
    /\ last.op = "answer"
    /\ last.res.status = "ok"
    /\ chunks = <<>>
    /\ last.res.context = <<>>
    /\ ~last.res.generated
    /\ last.res.answer_text = NotFoundAnswer

====
